---- MODULE Spec2Model ----
(***************************************************************************)
(* The file system cache of compiled Wasm modules                          *)
(* (packages/vm/src/modules/file_system_cache.rs).                         *)
(*                                                                         *)
(* The state is the directory tree under the supplied cache path, the set  *)
(* of FileSystemCache values constructed so far, and the last call with    *)
(* its returned value.  Each public method (new, load, store, remove) is   *)
(* one action; the std::fs and wasmer calls the methods make are operators *)
(* over the directory tree.                                                *)
(*                                                                         *)
(* Spec runs the calls one after another.  ConcSpec runs the calls of two  *)
(* threads (or processes) sharing the directory: there each std::fs or     *)
(* wasmer call a method makes is one step, and the steps of the two        *)
(* callers interleave.                                                     *)
(***************************************************************************)
EXTENDS Integers, Sequences, FiniteSets, TLC

\* Number of distinct checksums the callers use.
MaxFingerprint == 2
\* Number of distinct compiled modules the callers store.
MaxModule == 2
\* Number of entry files the volume has room for (a later create is ENOSPC).
MaxEntries == 2

VARIABLES
    fs,      \* the directory tree: path -> node
    caches,  \* the FileSystemCache values constructed so far
    ret,     \* the last call and what it returned
    before,  \* history: what the path the last call addressed resolved to
             \* when the call began
    stored,  \* history: the module of the last successful store of an entry
             \* that no later store wrote to and no remove deleted
    calls    \* ConcSpec: per thread, the call in progress and where it stands

vars == <<fs, caches, ret, before, stored, calls>>

----------------------------------------------------------------------------
(* Values *)

\* The wasmer module versions (engine builds) a process may run with; the
\* tests run with build 1 ("v4-wasmer1").
EngineBuilds == {1, 2}

Modules == 1..MaxModule
NoModule == 0

MODULE_SERIALIZATION_VERSION == "v4"

\* A checksum is a byte string (one byte here instead of thirty-two).
Checksum(i) == <<170 + i>>
Checksums == {Checksum(i) : i \in 1..MaxFingerprint}

HexDigits ==
    <<"0", "1", "2", "3", "4", "5", "6", "7", "8", "9", "a", "b", "c", "d", "e", "f">>

Digits == <<"0", "1", "2", "3", "4", "5", "6", "7", "8", "9">>

\* Checksum::to_hex: two lowercase hexadecimal digits per byte.
RECURSIVE ToHex(_)
ToHex(checksum) ==
    IF checksum = <<>> THEN <<>>
    ELSE <<HexDigits[(Head(checksum) \div 16) + 1], HexDigits[(Head(checksum) % 16) + 1]>>
         \o ToHex(Tail(checksum))

----------------------------------------------------------------------------
(* Results *)

\* let v = ...; the value is computed once and named in what follows.
Bind(v, F(_)) == F(v)

Ok(v) == [tag |-> "Ok", val |-> v]
Err(e) == [tag |-> "Err", err |-> e]

\* A piece of a message: a literal of the source, the same on every platform,
\* or the text the operating system gives for an error, which differs from
\* one platform to another.
Literal(text) == [text |-> text, platform_specific |-> FALSE]
OsErrorText(kind) == [text |-> kind, platform_specific |-> TRUE]

\* std::io::Error: its kind, and its Display text.
IoError(kind) == [kind |-> kind, text |-> OsErrorText(kind)]

\* VmError::cache_err(msg): the message as the pieces format! joins.
CacheErr(msg) == [kind |-> "CacheErr", msg |-> msg]

None == [some |-> FALSE, module |-> NoModule, size |-> 0]
Some(module, size) == [some |-> TRUE, module |-> module, size |-> size]

----------------------------------------------------------------------------
(* The directory tree *)

NoNode == [kind |-> "none", perm |-> "none", content |-> <<>>]
Dir(perm) == [kind |-> "dir", perm |-> perm, content |-> <<>>]
File(perm, bytes) == [kind |-> "file", perm |-> perm, content |-> bytes]

Join(path, name) == Append(path, name)
Parent(path) == SubSeq(path, 1, Len(path) - 1)

\* The path the callers hand to new, and its parent.
ParentPath == <<<<"data">>>>
CachePath == Join(ParentPath, <<"cache">>)

\* FileSystemCache { base_path, wasmer_module_version }
Cache(path, version) == [base_path |-> path, wasmer_module_version |-> version]

\* format!("{}-wasmer{}", MODULE_SERIALIZATION_VERSION, version)
VersionDirName(version) == <<MODULE_SERIALIZATION_VERSION, "-wasmer", Digits[version + 1]>>

\* Mutant: the directory does not depend on the handle's module version.
latest_modules_path_unversioned(cache) ==
    Join(cache.base_path, VersionDirName(1))

latest_modules_path(cache) ==
    Join(cache.base_path, VersionDirName(cache.wasmer_module_version))

EntryPath(cache, checksum) == Join(latest_modules_path(cache), ToHex(checksum))

AllCaches == {Cache(CachePath, v) : v \in EngineBuilds}
VersionDirs == {Join(CachePath, VersionDirName(v)) : v \in EngineBuilds}
EntryPaths == {Join(d, ToHex(k)) : d \in VersionDirs, k \in Checksums}
AllPaths == {ParentPath, CachePath} \cup VersionDirs \cup EntryPaths

RootDir == Dir("rw")

\* What stops path resolution at the i-th component of path, if anything.
StoppedAt(f, path, i) ==
    Bind(f[SubSeq(path, 1, i)], LAMBDA node :
    IF node.kind = "none" THEN "NotFound"
    ELSE IF i < Len(path) /\ node.kind # "dir" THEN "NotADirectory"
    ELSE IF i < Len(path) /\ node.perm = "none" THEN "PermissionDenied"
    ELSE "")

\* Path resolution: the node at path, or the error the OS gives for the first
\* component it cannot pass.
Lookup(f, path) ==
    Bind({i \in 1..Len(path) : StoppedAt(f, path, i) # ""}, LAMBDA stops :
    IF path = <<>> THEN Ok(RootDir)
    ELSE IF stops = {} THEN Ok(f[path])
    ELSE Err(StoppedAt(f, path, CHOOSE i \in stops : \A j \in stops : i <= j)))

\* Path::metadata / std::fs::metadata
Metadata(f, path) == Lookup(f, path)

\* Path::exists: whether the metadata can be retrieved.
Exists(f, path) == Metadata(f, path).tag = "Ok"

\* Permissions::readonly: no write permission.
Readonly(node) == node.perm # "rw"

NumEntries(f) == Cardinality({p \in EntryPaths : f[p].kind = "file"})

----------------------------------------------------------------------------
(* std::fs *)

FsOk(f) == [tag |-> "Ok", err |-> "", fs |-> f]
FsErr(kind, f) == [tag |-> "Err", err |-> kind, fs |-> f]

\* crate::filesystem::mkdir_p: create the directory and every missing parent;
\* an existing directory is left as it is.
RECURSIVE MkdirP(_, _)
MkdirP(f, path) ==
    Bind(Lookup(f, path), LAMBDA here :
    IF here.tag = "Ok" THEN
        IF here.val.kind = "dir" THEN FsOk(f) ELSE FsErr("AlreadyExists", f)
    ELSE IF here.err # "NotFound" THEN FsErr(here.err, f)
    ELSE Bind(MkdirP(f, Parent(path)), LAMBDA up :
         IF up.tag = "Err" THEN up
         ELSE IF Readonly(Lookup(up.fs, Parent(path)).val)
              THEN FsErr("PermissionDenied", up.fs)
         ELSE FsOk([up.fs EXCEPT ![path] = Dir("rw")])))

\* std::fs::read
ReadFile(f, path) ==
    Bind(Lookup(f, path), LAMBDA here :
    IF here.tag = "Err" THEN here
    ELSE IF here.val.kind = "dir" THEN Err("IsADirectory")
    ELSE IF here.val.perm = "none" THEN Err("PermissionDenied")
    ELSE Ok(here.val.content))

\* File::create of a file that does not exist yet: the directory must take a
\* new entry and the volume must have room for it.
CreateFile(f, path, bytes) ==
    Bind(Lookup(f, Parent(path)), LAMBDA up :
    IF up.tag = "Err" THEN FsErr(up.err, f)
    ELSE IF Readonly(up.val) THEN FsErr("PermissionDenied", f)
    ELSE IF NumEntries(f) >= MaxEntries THEN FsErr("StorageFull", f)
    ELSE FsOk([f EXCEPT ![path] = File("rw", bytes)]))

\* std::fs::write: File::create (create or truncate), then write_all.
WriteFile(f, path, bytes) ==
    Bind(Lookup(f, path), LAMBDA here :
    IF here.tag = "Ok" THEN
        IF here.val.kind = "dir" THEN FsErr("IsADirectory", f)
        ELSE IF Readonly(here.val) THEN FsErr("PermissionDenied", f)
        ELSE FsOk([f EXCEPT ![path].content = bytes])
    ELSE IF here.err # "NotFound" THEN FsErr(here.err, f)
    ELSE CreateFile(f, path, bytes))

\* std::fs::remove_file: unlink, which needs write permission on the directory.
RemoveFile(f, path) ==
    Bind(Lookup(f, path), LAMBDA here :
    IF here.tag = "Err" THEN FsErr(here.err, f)
    ELSE IF here.val.kind = "dir" THEN FsErr("IsADirectory", f)
    ELSE IF Readonly(Lookup(f, Parent(path)).val) THEN FsErr("PermissionDenied", f)
    ELSE FsOk([f EXCEPT ![path] = NoNode]))

----------------------------------------------------------------------------
(* wasmer *)

\* Module::serialize: the bytes of a module; modules differ in bytes and length.
Serialize(module) == [i \in 1..(module + 1) |-> IF i = 1 THEN 119 ELSE module]

\* Module::deserialize: the module whose bytes these are, if any.
Deserialize(bytes) ==
    IF \E m \in Modules : Serialize(m) = bytes
    THEN Ok(CHOOSE m \in Modules : Serialize(m) = bytes)
    ELSE Err("CorruptedBinary")

DeserializedOk(module) == [tag |-> "Ok", err |-> "", module |-> module]
DeserializeErrorIo(err) == [tag |-> "Io", err |-> err, module |-> NoModule]
DeserializeErrorOther(err) == [tag |-> "Other", err |-> err, module |-> NoModule]

\* Module::deserialize_from_file: DeserializeError::Io(err), another
\* DeserializeError, or the module.
DeserializeFromFile(f, path) ==
    Bind(ReadFile(f, path), LAMBDA bytes :
    IF bytes.tag = "Err" THEN DeserializeErrorIo(IoError(bytes.err))
    ELSE Bind(Deserialize(bytes.val), LAMBDA m :
         IF m.tag = "Err" THEN DeserializeErrorOther(m.err)
         ELSE DeserializedOk(m.val)))

\* Module::serialize_to_file: SerializeError::Io(err), or the file written.
SerializeToFile(f, path, module) == WriteFile(f, path, Serialize(module))

----------------------------------------------------------------------------
(* FileSystemCache *)

\* What a method returns and the directory tree it leaves.
Result(out, f) == [out |-> out, fs |-> f]

\* Mutant: a missing path is accepted without being created.
FileSystemCacheNewNoCreate(f, path, version) ==
    IF Exists(f, path) THEN
        Bind(Metadata(f, path), LAMBDA metadata :
        IF metadata.tag = "Err" THEN Result(Err("CouldntGetMetadata"), f)
        ELSE IF metadata.val.kind = "dir" THEN
            IF ~Readonly(metadata.val) THEN Result(Ok(Cache(path, version)), f)
            ELSE Result(Err("ReadonlyPath"), f)
        ELSE Result(Err("ExistsButNoDirectory"), f))
    ELSE Result(Ok(Cache(path, version)), f)

\* Mutant: the read-only check is inverted.
FileSystemCacheNewReadonlyInverted(f, path, version) ==
    IF Exists(f, path) THEN
        Bind(Metadata(f, path), LAMBDA metadata :
        IF metadata.tag = "Err" THEN Result(Err("CouldntGetMetadata"), f)
        ELSE IF metadata.val.kind = "dir" THEN
            IF Readonly(metadata.val) THEN Result(Ok(Cache(path, version)), f)
            ELSE Result(Err("ReadonlyPath"), f)
        ELSE Result(Err("ExistsButNoDirectory"), f))
    ELSE Bind(MkdirP(f, path), LAMBDA made :
         IF made.tag = "Err" THEN Result(Err("CouldntCreatePath"), made.fs)
         ELSE Result(Ok(Cache(path, version)), made.fs))

\* Mutant: new creates the modules directory of its version at once.
FileSystemCacheNewEager(f, path, version) ==
    IF Exists(f, path) THEN
        Bind(Metadata(f, path), LAMBDA metadata :
        IF metadata.tag = "Err" THEN Result(Err("CouldntGetMetadata"), f)
        ELSE IF metadata.val.kind = "dir" THEN
            IF ~Readonly(metadata.val)
            THEN Result(Ok(Cache(path, version)),
                        MkdirP(f, latest_modules_path(Cache(path, version))).fs)
            ELSE Result(Err("ReadonlyPath"), f)
        ELSE Result(Err("ExistsButNoDirectory"), f))
    ELSE Bind(MkdirP(f, path), LAMBDA made :
         IF made.tag = "Err" THEN Result(Err("CouldntCreatePath"), made.fs)
         ELSE Result(Ok(Cache(path, version)), made.fs))

\* Mutant: new over an existing directory starts from an empty cache.
FileSystemCacheNewWipes(f, path, version) ==
    IF Exists(f, path) THEN
        Bind(Metadata(f, path), LAMBDA metadata :
        IF metadata.tag = "Err" THEN Result(Err("CouldntGetMetadata"), f)
        ELSE IF metadata.val.kind = "dir" THEN
            IF ~Readonly(metadata.val)
            THEN Result(Ok(Cache(path, version)),
                        [p \in AllPaths |-> IF p \in EntryPaths THEN NoNode ELSE f[p]])
            ELSE Result(Err("ReadonlyPath"), f)
        ELSE Result(Err("ExistsButNoDirectory"), f))
    ELSE Bind(MkdirP(f, path), LAMBDA made :
         IF made.tag = "Err" THEN Result(Err("CouldntCreatePath"), made.fs)
         ELSE Result(Ok(Cache(path, version)), made.fs))

\* FileSystemCache::new
FileSystemCacheNew(f, path, version) ==
    IF Exists(f, path) THEN
        Bind(Metadata(f, path), LAMBDA metadata :
        IF metadata.tag = "Err" THEN Result(Err("CouldntGetMetadata"), f)
        ELSE IF metadata.val.kind = "dir" THEN
            IF ~Readonly(metadata.val) THEN Result(Ok(Cache(path, version)), f)
            ELSE Result(Err("ReadonlyPath"), f)
        ELSE Result(Err("ExistsButNoDirectory"), f))
    ELSE Bind(MkdirP(f, path), LAMBDA made :
         IF made.tag = "Err" THEN Result(Err("CouldntCreatePath"), made.fs)
         ELSE Result(Ok(Cache(path, version)), made.fs))

\* Mutant: the size of the directory is reported, not that of the file.
estimate_module_size_of_dir(f, module_path) ==
    Bind(Metadata(f, Parent(module_path)), LAMBDA metadata :
    IF metadata.tag = "Err" THEN Err(CacheErr(<<Literal("Error getting file metadata")>>))
    ELSE Ok(Len(metadata.val.content)))

\* estimate_module_size
estimate_module_size(f, module_path) ==
    Bind(Metadata(f, module_path), LAMBDA metadata :
    IF metadata.tag = "Err" THEN Err(CacheErr(<<Literal("Error getting file metadata")>>))
    ELSE Ok(Len(metadata.val.content)))

\* The rest of load once the module is deserialized: Ok((module, size)).
LoadedModule(module, module_size) ==
    IF module_size.tag = "Err" THEN module_size
    ELSE Ok(Some(module, module_size.val))

\* Mutant: every Io error, NotFound too, is reported as a failure.
FileSystemCacheLoadNoMiss(f, cache, checksum) ==
    LET file_path == Join(latest_modules_path(cache), ToHex(checksum)) IN
    Bind(DeserializeFromFile(f, file_path), LAMBDA result :
    IF result.tag = "Ok" THEN
        LoadedModule(result.module, estimate_module_size(f, file_path))
    ELSE IF result.tag = "Io" THEN
        Err(CacheErr(<<Literal("Error opening module file: "), result.err.text>>))
    ELSE Err(CacheErr(<<Literal("Error deserializing module: "), Literal(result.err)>>)))

\* Mutant: every Io error, whatever its kind, is taken for a missing file.
FileSystemCacheLoadIoIsMiss(f, cache, checksum) ==
    LET file_path == Join(latest_modules_path(cache), ToHex(checksum)) IN
    Bind(DeserializeFromFile(f, file_path), LAMBDA result :
    IF result.tag = "Ok" THEN
        LoadedModule(result.module, estimate_module_size(f, file_path))
    ELSE IF result.tag = "Io" THEN Ok(None)
    ELSE Err(CacheErr(<<Literal("Error deserializing module: "), Literal(result.err)>>)))

\* FileSystemCache::load
FileSystemCacheLoad(f, cache, checksum) ==
    LET file_path == Join(latest_modules_path(cache), ToHex(checksum)) IN
    Bind(DeserializeFromFile(f, file_path), LAMBDA result :
    IF result.tag = "Ok" THEN
        LoadedModule(result.module, estimate_module_size(f, file_path))
    ELSE IF result.tag = "Io" THEN
        IF result.err.kind = "NotFound" THEN Ok(None)
        ELSE Err(CacheErr(<<Literal("Error opening module file: "), result.err.text>>))
    ELSE Err(CacheErr(<<Literal("Error deserializing module: "), Literal(result.err)>>)))

\* The rest of store once serialize_to_file has returned.
StoredModule(written, path) ==
    IF written.tag = "Err"
    THEN Result(Err(CacheErr(<<Literal("Error writing module to disk: "),
                               IoError(written.err).text>>)), written.fs)
    ELSE Result(estimate_module_size(written.fs, path), written.fs)

\* Mutant: an existing entry is kept, not overwritten.
FileSystemCacheStoreKeepsOld(f, cache, checksum, module) ==
    LET modules_dir == latest_modules_path(cache) IN
    Bind(MkdirP(f, modules_dir), LAMBDA made :
    IF made.tag = "Err"
    THEN Result(Err(CacheErr(<<Literal("Error creating modules directory")>>)), made.fs)
    ELSE LET path == Join(modules_dir, ToHex(checksum)) IN
         IF Exists(made.fs, path) THEN StoredModule(FsOk(made.fs), path)
         ELSE StoredModule(SerializeToFile(made.fs, path, module), path))

\* Mutant: the module is written under the name of one checksum, whatever
\* the checksum given.
FileSystemCacheStoreOneName(f, cache, checksum, module) ==
    LET modules_dir == latest_modules_path(cache) IN
    Bind(MkdirP(f, modules_dir), LAMBDA made :
    IF made.tag = "Err"
    THEN Result(Err(CacheErr(<<Literal("Error creating modules directory")>>)), made.fs)
    ELSE LET path == Join(modules_dir, ToHex(Checksum(1))) IN
         StoredModule(SerializeToFile(made.fs, path, module), path))

\* Mutant: a failed write is passed over and the size on disk is looked up.
FileSystemCacheStoreSwallowsError(f, cache, checksum, module) ==
    LET modules_dir == latest_modules_path(cache) IN
    Bind(MkdirP(f, modules_dir), LAMBDA made :
    IF made.tag = "Err"
    THEN Result(Err(CacheErr(<<Literal("Error creating modules directory")>>)), made.fs)
    ELSE LET path == Join(modules_dir, ToHex(checksum)) IN
         Bind(SerializeToFile(made.fs, path, module), LAMBDA written :
         IF written.tag = "Err" THEN Result(Ok(0), written.fs)
         ELSE StoredModule(written, path)))

\* Mutant: the serialized bytes are written behind a one-byte header.
FileSystemCacheStoreWithHeader(f, cache, checksum, module) ==
    LET modules_dir == latest_modules_path(cache) IN
    Bind(MkdirP(f, modules_dir), LAMBDA made :
    IF made.tag = "Err"
    THEN Result(Err(CacheErr(<<Literal("Error creating modules directory")>>)), made.fs)
    ELSE LET path == Join(modules_dir, ToHex(checksum)) IN
         StoredModule(WriteFile(made.fs, path, <<4>> \o Serialize(module)), path))

\* FileSystemCache::store
FileSystemCacheStore(f, cache, checksum, module) ==
    LET modules_dir == latest_modules_path(cache) IN
    Bind(MkdirP(f, modules_dir), LAMBDA made :
    IF made.tag = "Err"
    THEN Result(Err(CacheErr(<<Literal("Error creating modules directory")>>)), made.fs)
    ELSE LET path == Join(modules_dir, ToHex(checksum)) IN
         StoredModule(SerializeToFile(made.fs, path, module), path))

\* Mutant: the file is reported as removed without being deleted.
FileSystemCacheRemoveKeepsFile(f, cache, checksum) ==
    LET file_path == Join(latest_modules_path(cache), ToHex(checksum)) IN
    IF Exists(f, file_path) THEN Result(Ok(TRUE), f) ELSE Result(Ok(FALSE), f)

\* Mutant: the whole modules directory is emptied with the file.
FileSystemCacheRemoveClearsDir(f, cache, checksum) ==
    LET file_path == Join(latest_modules_path(cache), ToHex(checksum)) IN
    IF Exists(f, file_path) THEN
        Bind(RemoveFile(f, file_path), LAMBDA removed :
        IF removed.tag = "Err"
        THEN Result(Err(CacheErr(<<Literal("Error deleting module from disk")>>)), removed.fs)
        ELSE Result(Ok(TRUE),
                    [p \in AllPaths |-> IF p \in EntryPaths /\ Parent(p) = Parent(file_path)
                                        THEN NoNode ELSE removed.fs[p]]))
    ELSE Result(Ok(FALSE), f)

\* FileSystemCache::remove
FileSystemCacheRemove(f, cache, checksum) ==
    LET file_path == Join(latest_modules_path(cache), ToHex(checksum)) IN
    IF Exists(f, file_path) THEN
        Bind(RemoveFile(f, file_path), LAMBDA removed :
        IF removed.tag = "Err"
        THEN Result(Err(CacheErr(<<Literal("Error deleting module from disk")>>)), removed.fs)
        ELSE Result(Ok(TRUE), removed.fs))
    ELSE Result(Ok(FALSE), f)

\* The callers that share the cache directory.
Threads == {1, 2}

\* A call in progress: the method's arguments, the statement it stands before
\* (pc), its local variable (the module load has deserialized), and what the
\* other caller has done to its entry file since it began: written to it
\* (stores), unlinked it (removes), unlinked it while this call held it open
\* for writing (orphan).
Idle ==
    [pc |-> "idle", cache |-> Cache(<<>>, 0), checksum |-> <<>>, module |-> NoModule,
     local |-> NoModule, stores |-> FALSE, removes |-> FALSE, orphan |-> FALSE]

----------------------------------------------------------------------------
(* The calls.  Each action is one call of a method, from its entry to its   *)
(* return: r is what the method returns and the tree it leaves.            *)

Call(op, cache, checksum, module, out) ==
    [op |-> op, cache |-> cache, checksum |-> checksum, module |-> module, out |-> out]

NoCall == Call("none", Cache(<<>>, 0), <<>>, NoModule, Ok(FALSE))

\* current_wasmer_module_version(): the build of the engine the calling
\* process runs.
New ==
    \E path \in {CachePath}, version \in EngineBuilds :
        \E r \in {FileSystemCacheNew(fs, path, version)} :
        /\ fs' = r.fs
        /\ caches' = IF r.out.tag = "Ok" THEN caches \cup {r.out.val} ELSE caches
        /\ ret' = Call("new", Cache(path, version), <<>>, NoModule, r.out)
        /\ before' = Lookup(fs, path)
        /\ UNCHANGED <<stored, calls>>

Load ==
    \E cache \in caches, checksum \in Checksums :
        /\ ret' = Call("load", cache, checksum, NoModule,
                       FileSystemCacheLoad(fs, cache, checksum))
        /\ before' = Lookup(fs, EntryPath(cache, checksum))
        /\ UNCHANGED <<fs, caches, stored, calls>>

Store ==
    \E cache \in caches, checksum \in Checksums, module \in Modules :
        \E r \in {FileSystemCacheStore(fs, cache, checksum, module)} :
        LET entry == EntryPath(cache, checksum)
        IN  /\ fs' = r.fs
            /\ ret' = Call("store", cache, checksum, module, r.out)
            /\ before' = Lookup(fs, entry)
            /\ stored' = IF r.out.tag = "Ok" THEN [stored EXCEPT ![entry] = module]
                          ELSE IF r.fs[entry] # fs[entry]
                               THEN [stored EXCEPT ![entry] = NoModule]
                          ELSE stored
            /\ UNCHANGED <<caches, calls>>

Remove ==
    \E cache \in caches, checksum \in Checksums :
        \E r \in {FileSystemCacheRemove(fs, cache, checksum)} :
        LET entry == EntryPath(cache, checksum)
        IN  /\ fs' = r.fs
            /\ ret' = Call("remove", cache, checksum, NoModule, r.out)
            /\ before' = Lookup(fs, entry)
            /\ stored' = IF r.fs[entry] # fs[entry]
                          THEN [stored EXCEPT ![entry] = NoModule]
                          ELSE stored
            /\ UNCHANGED <<caches, calls>>

----------------------------------------------------------------------------
(* The directory trees the program may be started on: the cases of the     *)
(* supplied path that new tells apart, and a cache directory an earlier    *)
(* run left an entry in, intact or corrupted.                              *)

EmptyTree == [p \in AllPaths |-> NoNode]

Tree(nodes) == [p \in AllPaths |-> IF p \in DOMAIN nodes THEN nodes[p] ELSE NoNode]

Build1Dir == Join(CachePath, VersionDirName(1))
Build1Entry == Join(Build1Dir, ToHex(Checksum(1)))
CorruptBytes == <<119>>

InitialTrees ==
    { EmptyTree,
      Tree(ParentPath :> Dir("rw")),
      Tree(ParentPath :> Dir("ro")),
      Tree(ParentPath :> Dir("none") @@ CachePath :> Dir("rw")),
      Tree(ParentPath :> Dir("rw") @@ CachePath :> File("rw", <<>>)),
      Tree(ParentPath :> Dir("rw") @@ CachePath :> Dir("ro")),
      Tree(ParentPath :> Dir("rw") @@ CachePath :> Dir("rw")) }
    \cup
    { Tree(ParentPath :> Dir("rw") @@ CachePath :> Dir("rw")
           @@ Build1Dir :> Dir("rw") @@ Build1Entry :> File("rw", bytes)) :
        bytes \in {Serialize(1), CorruptBytes} }

Init ==
    /\ fs \in InitialTrees
    /\ caches = {}
    /\ ret = NoCall
    /\ before = Err("NotFound")
    /\ stored = [p \in EntryPaths |-> NoModule]
    /\ calls = [t \in Threads |-> Idle]

Next == New \/ Load \/ Store \/ Remove

Spec == Init /\ [][Next]_vars

\* The same calls on a cache directory the environment has tampered with: an
\* entry file that cannot be read, one that does not deserialize, a file where
\* the directory of build 1 should be, and that directory made read-only or
\* unsearchable around an entry.
Build1Tree(dir, entry) ==
    Tree(ParentPath :> Dir("rw") @@ CachePath :> Dir("rw")
         @@ Build1Dir :> dir @@ Build1Entry :> entry)

HostileTrees ==
    { Build1Tree(Dir("rw"), File("none", Serialize(1))),
      Build1Tree(Dir("rw"), File("rw", CorruptBytes)),
      Build1Tree(File("rw", <<>>), NoNode),
      Build1Tree(Dir("ro"), File("rw", Serialize(1))),
      Build1Tree(Dir("none"), File("rw", Serialize(1))) }

HostileInit ==
    /\ fs \in HostileTrees
    /\ caches = {}
    /\ ret = NoCall
    /\ before = Err("NotFound")
    /\ stored = [p \in EntryPaths |-> NoModule]
    /\ calls = [t \in Threads |-> Idle]

HostileSpec == HostileInit /\ [][Next]_vars

----------------------------------------------------------------------------
(* Two callers sharing the cache directory.  The handle is stateless, so   *)
(* both hold the cache of build 1 over the same base path.  A call begins  *)
(* with the first file system access it makes; every later access is a     *)
(* step of its own, and the other caller may take steps in between.  The   *)
(* histories before and stored belong to the sequential calls and stay as  *)
(* they are here.                                                          *)

\* File::create: open for writing, creating the file or truncating it.
OpenTruncate(f, path) ==
    Bind(Lookup(f, path), LAMBDA here :
    IF here.tag = "Ok" THEN
        IF here.val.kind = "dir" THEN FsErr("IsADirectory", f)
        ELSE IF Readonly(here.val) THEN FsErr("PermissionDenied", f)
        ELSE FsOk([f EXCEPT ![path].content = <<>>])
    ELSE IF here.err # "NotFound" THEN FsErr(here.err, f)
    ELSE CreateFile(f, path, <<>>))

\* write_all on the file opened by File::create: the bytes go to the start of
\* the file and replace what is there, keeping what lies beyond them.  A file
\* unlinked since it was opened is written to without being in the tree.
WriteAll(f, path, bytes, orphan) ==
    IF orphan \/ f[path].kind # "file" THEN FsOk(f)
    ELSE FsOk([f EXCEPT ![path].content = bytes \o SubSeq(@, Len(bytes) + 1, Len(@))])

\* The two callers contend for the entry of one checksum, with any modules.
ContendedChecksums == {Checksum(1)}

Began(pc, cache, checksum, module, local) ==
    [pc |-> pc, cache |-> cache, checksum |-> checksum, module |-> module,
     local |-> local, stores |-> FALSE, removes |-> FALSE, orphan |-> FALSE]

\* The calls in progress after thread t has taken a step that left the tree g:
\* t is at next, and the other call on the same entry file has seen what the
\* step did to the file.
Stepped(t, next, entry, g, by_store) ==
    [u \in Threads |->
        IF u = t THEN next
        ELSE IF calls[u].pc # "idle" /\ EntryPath(calls[u].cache, calls[u].checksum) = entry
                /\ g[entry] # fs[entry]
        THEN [calls[u] EXCEPT
                !.stores = @ \/ by_store,
                !.removes = @ \/ (g[entry].kind = "none"),
                !.orphan = @ \/ (g[entry].kind = "none" /\ calls[u].pc = "store_write")]
        ELSE calls[u]]

Returned(t, op, out) ==
    Call(op, calls[t].cache, calls[t].checksum, calls[t].module, out)

\* Mutant: a file that fails to deserialize is deleted by the load.
LoadDeserializeHealing ==
    \E t \in Threads, cache \in caches, checksum \in ContendedChecksums :
        \E result \in {DeserializeFromFile(fs, EntryPath(cache, checksum))} :
        /\ calls[t].pc = "idle"
        /\ IF result.tag = "Ok"
           THEN /\ calls' = [calls EXCEPT ![t] =
                                Began("load_size", cache, checksum, NoModule, result.module)]
                /\ ret' = ret
                /\ fs' = fs
           ELSE /\ calls' = calls
                /\ ret' = Call("load", cache, checksum, NoModule,
                                FileSystemCacheLoad(fs, cache, checksum))
                /\ fs' = IF result.tag = "Other"
                         THEN [fs EXCEPT ![EntryPath(cache, checksum)] = NoNode]
                         ELSE fs
        /\ UNCHANGED <<caches, before, stored>>

\* load, line 111: Module::deserialize_from_file; the arms of lines 117-128
\* return at once.
LoadDeserialize ==
    \E t \in Threads, cache \in caches, checksum \in ContendedChecksums :
        \E result \in {DeserializeFromFile(fs, EntryPath(cache, checksum))} :
        /\ calls[t].pc = "idle"
        /\ IF result.tag = "Ok"
           THEN /\ calls' = [calls EXCEPT ![t] =
                                Began("load_size", cache, checksum, NoModule, result.module)]
                /\ ret' = ret
           ELSE /\ calls' = calls
                /\ ret' = Call("load", cache, checksum, NoModule,
                                FileSystemCacheLoad(fs, cache, checksum))
        /\ UNCHANGED <<fs, caches, before, stored>>

\* load, lines 114-115: estimate_module_size, then Ok(Some((module, size))).
LoadSize ==
    \E t \in {u \in Threads : calls[u].pc = "load_size"} :
        /\ ret' = Returned(t, "load",
                LoadedModule(calls[t].local,
                             estimate_module_size(fs, EntryPath(calls[t].cache, calls[t].checksum))))
        /\ calls' = [calls EXCEPT ![t] = Idle]
        /\ UNCHANGED <<fs, caches, before, stored>>

\* store, lines 135-137: mkdir_p of the modules directory.
StoreMkdir ==
    \E t \in Threads, cache \in caches, checksum \in ContendedChecksums, module \in Modules :
        \E made \in {MkdirP(fs, latest_modules_path(cache))} :
        /\ calls[t].pc = "idle"
        /\ fs' = made.fs
        /\ IF made.tag = "Err"
           THEN /\ calls' = calls
                /\ ret' = Call("store", cache, checksum, module,
                                Err(CacheErr(<<Literal("Error creating modules directory")>>)))
           ELSE /\ calls' = [calls EXCEPT ![t] =
                                Began("store_create", cache, checksum, module, NoModule)]
                /\ ret' = ret
        /\ UNCHANGED <<caches, before, stored>>

\* store, lines 141-143: serialize_to_file opens the file (File::create).
StoreCreate ==
    \E t \in {u \in Threads : calls[u].pc = "store_create"} :
        LET entry == EntryPath(calls[t].cache, calls[t].checksum) IN
        \E opened \in {OpenTruncate(fs, entry)} :
        /\ fs' = opened.fs
        /\ IF opened.tag = "Err"
           THEN /\ calls' = Stepped(t, Idle, entry, opened.fs, TRUE)
                /\ ret' = Returned(t, "store", StoredModule(opened, entry).out)
           ELSE /\ calls' = Stepped(t, [calls[t] EXCEPT !.pc = "store_write", !.orphan = FALSE],
                                     entry, opened.fs, TRUE)
                /\ ret' = ret
        /\ UNCHANGED <<caches, before, stored>>

\* store, lines 141-143: serialize_to_file writes the serialized module.
StoreWrite ==
    \E t \in {u \in Threads : calls[u].pc = "store_write"} :
        LET entry == EntryPath(calls[t].cache, calls[t].checksum) IN
        \E written \in {WriteAll(fs, entry, Serialize(calls[t].module), calls[t].orphan)} :
        /\ fs' = written.fs
        /\ calls' = Stepped(t, [calls[t] EXCEPT !.pc = "store_size", !.orphan = FALSE],
                             entry, written.fs, TRUE)
        /\ UNCHANGED <<caches, ret, before, stored>>

\* store, line 145: estimate_module_size of the file written.
StoreSize ==
    \E t \in {u \in Threads : calls[u].pc = "store_size"} :
        LET entry == EntryPath(calls[t].cache, calls[t].checksum) IN
        /\ ret' = Returned(t, "store", StoredModule(FsOk(fs), entry).out)
        /\ calls' = [calls EXCEPT ![t] = Idle]
        /\ UNCHANGED <<fs, caches, before, stored>>

\* remove, lines 152-154 and 159-161: file_path.exists().
RemoveExists ==
    \E t \in Threads, cache \in caches, checksum \in ContendedChecksums :
        /\ calls[t].pc = "idle"
        /\ IF Exists(fs, EntryPath(cache, checksum))
           THEN /\ calls' = [calls EXCEPT ![t] =
                                Began("remove_file", cache, checksum, NoModule, NoModule)]
                /\ ret' = ret
           ELSE /\ calls' = calls
                /\ ret' = Call("remove", cache, checksum, NoModule, Ok(FALSE))
        /\ UNCHANGED <<fs, caches, before, stored>>

\* remove, lines 155-158: fs::remove_file.
RemoveUnlink ==
    \E t \in {u \in Threads : calls[u].pc = "remove_file"} :
        LET entry == EntryPath(calls[t].cache, calls[t].checksum) IN
        \E removed \in {RemoveFile(fs, entry)} :
        /\ fs' = removed.fs
        /\ calls' = Stepped(t, Idle, entry, removed.fs, FALSE)
        /\ ret' = Returned(t, "remove",
                IF removed.tag = "Err"
                THEN Err(CacheErr(<<Literal("Error deleting module from disk")>>))
                ELSE Ok(TRUE))
        /\ UNCHANGED <<caches, before, stored>>

\* A cache directory in use: empty, or holding an entry an earlier store left.
SharedTrees ==
    { Tree(ParentPath :> Dir("rw") @@ CachePath :> Dir("rw")),
      Tree(ParentPath :> Dir("rw") @@ CachePath :> Dir("rw")
           @@ Build1Dir :> Dir("rw") @@ Build1Entry :> File("rw", Serialize(1))) }

ConcInit ==
    /\ fs \in SharedTrees
    /\ caches = {Cache(CachePath, 1)}
    /\ ret = NoCall
    /\ before = Err("NotFound")
    /\ stored = [p \in EntryPaths |-> NoModule]
    /\ calls = [t \in Threads |-> Idle]

ConcNext ==
    \/ LoadDeserialize \/ LoadSize
    \/ StoreMkdir \/ StoreCreate \/ StoreWrite \/ StoreSize
    \/ RemoveExists \/ RemoveUnlink

ConcSpec == ConcInit /\ [][ConcNext]_vars

----------------------------------------------------------------------------
(* Properties *)

\* The entry file a load, store or remove call addresses.
EntryOf(call) == EntryPath(call.cache, call.checksum)

SameEntry(a, b) == a.cache = b.cache /\ a.checksum = b.checksum

Succeeded(call) == call.out.tag = "Ok"

\* What load returns for an intact entry holding the module.
Found(module) == Ok(Some(module, Len(Serialize(module))))

\* C1 (round trip): once store(f, a) has succeeded, and until a store writes
\* the entry of f again or a remove deletes it, every load(f) returns a with
\* the length of its serialized form, whatever was done to other entries.
C1_RoundTrip ==
    [][(ret'.op = "load" /\ stored[EntryOf(ret')] # NoModule)
         => ret'.out = Found(stored[EntryOf(ret')])]_vars

\* A load has returned a stored module while another entry was stored too.
C1_Witness ==
    /\ ret.op = "load"
    /\ stored[EntryOf(ret)] # NoModule
    /\ ret.out = Found(stored[EntryOf(ret)])
    /\ \E p \in EntryPaths : p # EntryOf(ret) /\ stored[p] # NoModule

\* C2 (miss): load of a checksum whose entry file does not exist returns
\* Ok(None), never an error, also when the version directory does not exist.
C2_MissIsAbsent ==
    [][(ret'.op = "load" /\ fs[EntryOf(ret')].kind = "none") => ret'.out = Ok(None)]_vars

\* A load has returned None from a cache whose version directory is missing.
C2_Witness ==
    /\ ret.op = "load"
    /\ ret.out = Ok(None)
    /\ fs[latest_modules_path(ret.cache)].kind = "none"

\* C3 (removal): remove returns true exactly when the entry file existed and
\* is gone afterwards, false exactly when no such file existed, and then it
\* leaves the tree unchanged; right after a successful store of the entry it
\* returns true, a load right after that returns None, and a remove right
\* after a remove that returned true, or after a load that returned None,
\* returns false.
C3_Removal ==
    [][/\ ret'.op = "remove" =>
            /\ (ret'.out = Ok(TRUE)) <=>
                    (fs[EntryOf(ret')].kind = "file" /\ fs'[EntryOf(ret')].kind = "none")
            /\ (ret'.out = Ok(FALSE)) <=> (fs[EntryOf(ret')].kind = "none")
            /\ (fs[EntryOf(ret')].kind = "none" => fs' = fs)
            /\ (ret.op = "store" /\ Succeeded(ret) /\ SameEntry(ret, ret'))
                    => ret'.out = Ok(TRUE)
            /\ (ret.op = "remove" /\ ret.out = Ok(TRUE) /\ SameEntry(ret, ret'))
                    => ret'.out = Ok(FALSE)
            /\ (ret.op = "load" /\ ret.out = Ok(None) /\ SameEntry(ret, ret'))
                    => ret'.out = Ok(FALSE)
       /\ (ret.op = "remove" /\ ret.out = Ok(TRUE) /\ ret'.op = "load" /\ SameEntry(ret, ret'))
            => ret'.out = Ok(None)]_vars

\* A remove has deleted an entry file that was there when it began.
C3_Witness ==
    /\ ret.op = "remove"
    /\ ret.out = Ok(TRUE)
    /\ before.tag = "Ok"
    /\ before.val.kind = "file"
    /\ fs[EntryOf(ret)].kind = "none"

\* The module the entry held when the last call began, if it held one.
HeldBefore ==
    IF before.tag = "Ok" /\ before.val.kind = "file" /\ Deserialize(before.val.content).tag = "Ok"
    THEN Deserialize(before.val.content).val
    ELSE NoModule

\* An entry that held one module has been stored again with another.
Overwritten ==
    /\ ret.op = "store"
    /\ Succeeded(ret)
    /\ HeldBefore # NoModule
    /\ HeldBefore # ret.module

\* C4 (overwrite): the version directory holds one file per checksum; after a
\* successful store of a2 over an entry that held a1 # a2, the store has
\* returned the size of a2, the file holds the bytes of a2, and a load of the
\* entry returns a2 with the size of a2, not a1.
C4_Overwrite ==
    [][/\ Overwritten' =>
            /\ fs'[EntryOf(ret')] = File("rw", Serialize(ret'.module))
            /\ ret'.out = Ok(Len(Serialize(ret'.module)))
       /\ (Overwritten /\ ret'.op = "load" /\ SameEntry(ret, ret')) =>
            /\ ret'.out = Found(ret.module)
            /\ ret'.out.val.module # HeldBefore]_vars

\* A store has succeeded on an entry that held another module.
C4_Witness == Overwritten

\* The caches over the same base path with another version tag.
OtherVersions(cache) ==
    {c \in AllCaches : /\ c.base_path = cache.base_path
                        /\ c.wasmer_module_version # cache.wasmer_module_version}

\* C5 (version isolation): a store or remove through one cache, whatever it
\* changes in the tree, changes neither what load returns nor what remove
\* would return, for any checksum, through a cache over the same base path
\* with another version tag.
C5_VersionIsolation ==
    [][(ret'.op \in {"store", "remove"} /\ fs' # fs) =>
        \A c \in OtherVersions(ret'.cache), k \in Checksums :
            /\ FileSystemCacheLoad(fs', c, k) = FileSystemCacheLoad(fs, c, k)
            /\ FileSystemCacheRemove(fs', c, k).out = FileSystemCacheRemove(fs, c, k).out
            /\ fs'[EntryPath(c, k)] = fs[EntryPath(c, k)]]_vars

\* A store has succeeded while the other version holds an entry of the same
\* checksum with another module.
C5_Witness ==
    /\ ret.op = "store"
    /\ Succeeded(ret)
    /\ \E c \in OtherVersions(ret.cache) :
          /\ fs[EntryPath(c, ret.checksum)].kind = "file"
          /\ fs[EntryPath(c, ret.checksum)].content # fs[EntryOf(ret)].content

\* C6 (size): a successful store returns the byte length of the file it has
\* written, which is the length of the module's serialized form, and a load
\* of the entry right after it reports the same size.
C6_SizeEstimate ==
    [][/\ (ret'.op = "store" /\ Succeeded(ret')) =>
            /\ ret'.out.val = Len(fs'[EntryOf(ret')].content)
            /\ ret'.out.val = Len(Serialize(ret'.module))
       /\ (ret.op = "store" /\ Succeeded(ret) /\ ret'.op = "load" /\ SameEntry(ret, ret')) =>
            /\ Succeeded(ret')
            /\ ret'.out.val.some
            /\ ret'.out.val.size = ret.out.val]_vars

\* A load has reported the size of the larger module, stored in this run.
C6_Witness ==
    /\ ret.op = "load"
    /\ Succeeded(ret)
    /\ ret.out.val.some
    /\ stored[EntryOf(ret)] = MaxModule
    /\ ret.out.val.size = Len(Serialize(MaxModule))

NewFileSystemCacheError ==
    {"CouldntGetMetadata", "ReadonlyPath", "ExistsButNoDirectory", "CouldntCreatePath"}

\* C7 (platform-independent errors): no error returned by load, store or
\* remove holds text of the operating system, so that the error is the same
\* on two platforms whose error texts differ; an error of new is one of the
\* four fixed variants.
C7_NoOsErrorText ==
    /\ (ret.op \in {"load", "store", "remove"} /\ ret.out.tag = "Err") =>
            \A i \in DOMAIN ret.out.err.msg : ~ret.out.err.msg[i].platform_specific
    /\ (ret.op = "new" /\ ret.out.tag = "Err") => ret.out.err \in NewFileSystemCacheError

\* C8 (new over an existing path): when the metadata of the path is there,
\* new fails with ExistsButNoDirectory if the path is no directory, fails
\* with ReadonlyPath if it is a read-only directory, and returns the cache
\* with that base path if it is a writable directory; the tree is unchanged.
C8_NewExistingPath ==
    [][(ret'.op = "new" /\ Metadata(fs, ret'.cache.base_path).tag = "Ok") =>
        /\ fs' = fs
        /\ IF fs[ret'.cache.base_path].kind # "dir"
           THEN ret'.out = Err("ExistsButNoDirectory") /\ caches' = caches
           ELSE IF Readonly(fs[ret'.cache.base_path])
           THEN ret'.out = Err("ReadonlyPath") /\ caches' = caches
           ELSE /\ ret'.out = Ok(ret'.cache)
                /\ caches' = caches \cup {ret'.cache}]_vars

\* new has refused a read-only directory.
C8_Witness ==
    /\ ret.op = "new"
    /\ ret.out = Err("ReadonlyPath")
    /\ before.tag = "Ok"
    /\ before.val.kind = "dir"
    /\ Readonly(before.val)

\* C9 (metadata unavailable): when the metadata of the path cannot be
\* retrieved, for another reason than the path not existing, new fails with
\* CouldntGetMetadata and leaves the tree as it is.
C9_CouldntGetMetadata ==
    [][(ret'.op = "new" /\ Metadata(fs, ret'.cache.base_path).tag = "Err"
                        /\ Metadata(fs, ret'.cache.base_path).err # "NotFound")
         => (ret'.out = Err("CouldntGetMetadata") /\ fs' = fs)]_vars

\* The paths from the root down to path.
Ancestors(path) == {SubSeq(path, 1, i) : i \in 1..Len(path)}

\* C10 (new over a missing path): when the path does not exist, either new
\* returns the cache, having created the path and its missing parents as
\* directories and nothing else, or it returns CouldntCreatePath and no
\* cache, the path still missing; after any successful new the base path is
\* a directory.
C10_NewMissingPath ==
    [][ret'.op = "new" =>
        /\ Metadata(fs, ret'.cache.base_path) = Err("NotFound") =>
              \/ /\ ret'.out = Ok(ret'.cache)
                 /\ caches' = caches \cup {ret'.cache}
                 /\ \A p \in Ancestors(ret'.cache.base_path) : fs'[p].kind = "dir"
                 /\ \A p \in AllPaths : fs'[p] # fs[p] =>
                        (p \in Ancestors(ret'.cache.base_path) /\ fs[p].kind = "none")
              \/ /\ ret'.out = Err("CouldntCreatePath")
                 /\ caches' = caches
                 /\ fs'[ret'.cache.base_path].kind = "none"
        /\ Succeeded(ret') =>
              /\ Metadata(fs', ret'.cache.base_path).tag = "Ok"
              /\ Metadata(fs', ret'.cache.base_path).val.kind = "dir"]_vars

\* new has returned a cache over a path that did not exist.
C10_Witness ==
    /\ ret.op = "new"
    /\ Succeeded(ret)
    /\ before = Err("NotFound")
    /\ fs[ret.cache.base_path].kind = "dir"
    /\ ret.cache \in caches

\* The place the persisted layout gives an entry: the base path, the directory
\* "v4-wasmer<build>", the checksum in lowercase hexadecimal.
LayoutPath(cache, checksum) ==
    cache.base_path
        \o <<<<"v4", "-wasmer", Digits[cache.wasmer_module_version + 1]>>, ToHex(checksum)>>

\* tests::file_system_cache_store_uses_expected_path: build 1, checksum 0xab.
TestLayoutPath == <<<<"data">>, <<"cache">>, <<"v4", "-wasmer", "1">>, <<"a", "b">>>>

LoadBegins(t) == calls[t].pc = "idle" /\ calls'[t].pc = "load_size"
LoadReturns(t) == calls[t].pc = "load_size" /\ calls'[t].pc = "idle"
LoadReturnsAtOnce == calls' = calls /\ ret'.op = "load"

\* Nothing was written to or unlinked at the entry of the call of t since the
\* call began.
Undisturbed(t) == ~calls[t].stores /\ ~calls[t].removes

\* C12 (load is read-only): every step of a load, whatever the load returns,
\* leaves the whole directory tree as it is; and a load that runs while the
\* other caller loads too, no writer touching its entry, returns what the
\* load run alone on the tree returns.
C12_LoadReadOnly ==
    [][/\ ((\E t \in Threads : LoadBegins(t) \/ LoadReturns(t)) \/ LoadReturnsAtOnce)
            => fs' = fs
       /\ \A t \in Threads : (LoadReturns(t) /\ Undisturbed(t)) =>
            ret'.out = FileSystemCacheLoad(fs', ret'.cache, ret'.checksum)
       /\ LoadReturnsAtOnce =>
            ret'.out = FileSystemCacheLoad(fs', ret'.cache, ret'.checksum)]_vars

\* A load has returned a module while the load of the other caller, begun
\* before this one returned, is between its two steps.
C12_Witness ==
    /\ ret.op = "load"
    /\ Succeeded(ret)
    /\ ret.out.val.some
    /\ \E t \in Threads :
          /\ calls[t].pc = "load_size"
          /\ ~calls[t].stores /\ ~calls[t].removes
          /\ calls[t].checksum = ret.checksum

IsCacheErr(out) == out.tag = "Err" /\ out.err.kind = "CacheErr"

\* C13 (load of a present entry): when the entry file exists, load returns a
\* cache error if the file cannot be reached or read, a cache error if its
\* bytes do not deserialize, and otherwise the module with the length of the
\* file; it never returns None, and it leaves the file as it is.
C13_LoadPresent ==
    [][(ret'.op = "load" /\ fs[EntryOf(ret')].kind = "file") =>
        /\ IF Lookup(fs, EntryOf(ret')).tag = "Err" \/ fs[EntryOf(ret')].perm = "none"
           THEN IsCacheErr(ret'.out)
           ELSE IF Deserialize(fs[EntryOf(ret')].content).tag = "Err"
           THEN IsCacheErr(ret'.out)
           ELSE ret'.out = Ok(Some(Deserialize(fs[EntryOf(ret')].content).val,
                                   Len(fs[EntryOf(ret')].content)))
        /\ ret'.out # Ok(None)
        /\ fs'[EntryOf(ret')] = fs[EntryOf(ret')]]_vars

\* A load has returned a cache error for an entry file that is there but
\* cannot be read, and the file is still there.
C13_Witness ==
    /\ ret.op = "load"
    /\ IsCacheErr(ret.out)
    /\ before.tag = "Ok"
    /\ before.val.kind = "file"
    /\ before.val.perm = "none"
    /\ fs[EntryOf(ret)] = before.val

\* C14 (load racing with remove): a load of an entry that holds a stored
\* module, running while the other caller removes the entry and no store
\* writes it, returns that module with its size or None, never an error.
C14_LoadRemoveRace ==
    [][\A t \in Threads : (LoadReturns(t) /\ ~calls[t].stores) =>
            ret'.out \in {Found(calls[t].local), Ok(None)}]_vars

StoreReturns(t) == calls[t].pc = "store_size" /\ calls'[t].pc = "idle"

\* C15 (store racing with store): when a store returns successfully, the
\* store of another module to the same checksum by the other caller having
\* written the entry meanwhile and returned successfully just before, and no
\* remove having run, the entry file holds the serialized bytes of one of
\* the two modules, not a mixture, and a load of it returns that module.
C15_StoreStoreRace ==
    [][\A t \in Threads :
        (/\ StoreReturns(t) /\ Succeeded(ret')
         /\ calls[t].stores /\ ~calls[t].removes
         /\ \A u \in Threads : calls'[u].pc = "idle"
         /\ ret.op = "store" /\ Succeeded(ret)
         /\ SameEntry(ret, ret') /\ ret.module # ret'.module)
        => /\ fs'[EntryOf(ret')].content \in {Serialize(ret.module), Serialize(ret'.module)}
           /\ FileSystemCacheLoad(fs', ret'.cache, ret'.checksum)
                    \in {Found(ret.module), Found(ret'.module)}]_vars

\* C16 (lazy creation of the modules directory): new, load and remove leave
\* every versioned directory as it is; a versioned directory that comes into
\* being does so in a store through the cache of that version, as a
\* directory under the existing base path; and after a successful store the
\* versioned directory of its cache exists.
C16_LazyVersionDir ==
    [][/\ ret'.op \in {"new", "load", "remove"} =>
            \A d \in VersionDirs : fs'[d] = fs[d]
       /\ \A d \in VersionDirs : (fs[d].kind = "none" /\ fs'[d].kind # "none") =>
            /\ ret'.op = "store"
            /\ d = latest_modules_path(ret'.cache)
            /\ fs'[d].kind = "dir"
            /\ fs'[Parent(d)].kind = "dir"
       /\ (ret'.op = "store" /\ Succeeded(ret')) =>
            fs'[latest_modules_path(ret'.cache)].kind = "dir"]_vars

\* A store through the cache of build 2, whose directory no tree starts
\* with, has succeeded: the directory is there, that of build 1 is not.
C16_Witness ==
    /\ ret.op = "store"
    /\ Succeeded(ret)
    /\ ret.cache = Cache(CachePath, 2)
    /\ fs[latest_modules_path(ret.cache)].kind = "dir"
    /\ Cache(CachePath, 1) \in caches
    /\ fs[Build1Dir].kind = "none"

RemoveReturns(t) == calls[t].pc = "remove_file" /\ calls'[t].pc = "idle"

\* C18 (concurrent removes): a remove that found the entry file and ran while
\* the other caller removed the same entry, no store writing it, returns
\* false if the other unlinked the file first and true otherwise, so that one
\* of the two returns true and the other false; it returns no error.
C18_RemoveRemoveRace ==
    [][\A t \in Threads : (RemoveReturns(t) /\ ~calls[t].stores) =>
            ret'.out = Ok(~calls[t].removes)]_vars

\* C19 (module and size belong together): whenever a load returns a module
\* and a size, the size is the length of the serialized form of that module,
\* also when the other caller stores another module to the entry between the
\* load's deserialization and its size lookup.
C19_LoadSizeConsistent ==
    [][(ret'.op = "load" /\ Succeeded(ret') /\ ret'.out.val.some) =>
            ret'.out.val.size = Len(Serialize(ret'.out.val.module))]_vars

\* C20 (per-key frame): a store or remove of one checksum, whether it succeeds
\* or fails, leaves the entry file of every other checksum under the same
\* version as it is, in existence and in bytes, so that a load of the other
\* checksum returns the same before and after.
C20_PerKeyFrame ==
    [][ret'.op \in {"store", "remove"} =>
        \A g \in Checksums \ {ret'.checksum} :
            /\ fs'[EntryPath(ret'.cache, g)] = fs[EntryPath(ret'.cache, g)]
            /\ FileSystemCacheLoad(fs', ret'.cache, g) = FileSystemCacheLoad(fs, ret'.cache, g)]_vars

\* A remove has deleted the entry of one checksum while the entry of another
\* checksum under the same version holds a stored module.
C20_Witness ==
    /\ ret.op = "remove"
    /\ ret.out = Ok(TRUE)
    /\ \E g \in Checksums \ {ret.checksum} :
          /\ stored[EntryPath(ret.cache, g)] # NoModule
          /\ fs[EntryPath(ret.cache, g)].content = Serialize(stored[EntryPath(ret.cache, g)])

\* C21 (persistence across handles): new deletes and alters no entry file and
\* no versioned directory; the handle it returns holds the base path and the
\* version and nothing else; and a load through a handle just constructed
\* returns the module an earlier handle with the same base path and version
\* stored, and the module an entry file left by an earlier run holds.
C21_PersistsAcrossHandles ==
    [][/\ ret'.op = "new" =>
            /\ \A p \in EntryPaths \cup VersionDirs : fs'[p] = fs[p]
            /\ stored' = stored
            /\ Succeeded(ret') =>
                  /\ DOMAIN ret'.out.val = {"base_path", "wasmer_module_version"}
                  /\ ret'.out.val \in caches'
       /\ (ret.op = "new" /\ Succeeded(ret) /\ ret'.op = "load"
                /\ ret'.cache.base_path = ret.out.val.base_path
                /\ ret'.cache.wasmer_module_version = ret.out.val.wasmer_module_version) =>
            /\ stored[EntryOf(ret')] # NoModule => ret'.out = Found(stored[EntryOf(ret')])
            /\ \A m \in Modules : fs[EntryOf(ret')] = File("rw", Serialize(m))
                    => ret'.out = Found(m)]_vars

\* new has returned a handle over a directory in which an earlier handle of
\* the same version has stored an entry, and the entry file is as stored.
C21_Witness ==
    /\ ret.op = "new"
    /\ Succeeded(ret)
    /\ before.tag = "Ok"
    /\ \E k \in Checksums :
          /\ stored[EntryPath(ret.out.val, k)] # NoModule
          /\ fs[EntryPath(ret.out.val, k)]
                = File("rw", Serialize(stored[EntryPath(ret.out.val, k)]))

====
